---- MODULE Spec2Model ----
(***************************************************************************)
(* Stock-depletion forecasting of the inventory backend                    *)
(* (backend/src/routes/predictions.js, routes/upload.js, routes/           *)
(* inventory.js, database/init.js).                                        *)
(*                                                                         *)
(* JavaScript numbers are modelled as exact rationals n/d (d > 0), with    *)
(* d = 0 standing for the non-finite values: 0/0 is NaN, 1/0 is +Infinity  *)
(* and -1/0 is -Infinity.  Calendar dates are day numbers; a nullable      *)
(* date is a sequence of length 0 (NULL) or 1.                             *)
(***************************************************************************)
EXTENDS Integers, Sequences, FiniteSets, TLC

VARIABLES
    now,              \* the server clock, in ticks (TicksPerDay ticks per calendar day)
    input,            \* arguments of predictStockDepletion under SpecPredict
    calls,            \* results returned by successive calls under SpecPredict
    inventory_items,  \* table inventory_items, in rowid order
    sales_data,       \* table sales_data, in rowid order
    predictions,      \* table predictions, in rowid order
    issued,           \* the item ids issued by uuidv4() so far
    gen,              \* the POST /predictions/generate request in progress
    res,              \* the response of the predictions router or of the inventory
                      \* listing sent by the last step
    overview          \* the GET /inventory/stats/overview request in progress

----------------------------------------------------------------------------
(* Bounds of the model *)
MaxNow == 2
TicksPerDay == 1
MaxLen == 2
MaxDay == 1
MaxRun == 15
MaxQty == 2
BigQty == 10
MaxCalls == 2
MaxSales == 2
MaxRecords == 1
MaxPredictions == 1
MaxAlertPredictions == 2
MaxChartDays == 2
MaxChartSales == 2
MaxHistory == 11
MaxFailRows == 4
MaxStatsPredictions == 2

\* periods = 7, the default window of calculateMovingAverage
DefaultPeriods == 7

\* slice(-14): the rows calculateLinearTrend gets from predictStockDepletion
TrendWindow == 14

\* salesData.length < 14: the histories calculateSeasonalFactor leaves unadjusted
SeasonalMinimum == 14

\* LIMIT 10 of the prediction history of an item (GET /item/:id)
HistoryLimit == 10

----------------------------------------------------------------------------
(* JavaScript number arithmetic on rationals *)

Abs(i) == IF i < 0 THEN -i ELSE i
Sign(i) == IF i < 0 THEN -1 ELSE IF i > 0 THEN 1 ELSE 0

RECURSIVE GCD(_, _)
GCD(a, b) == IF b = 0 THEN a ELSE GCD(b, a % b)

\* the number n/d in lowest terms; d = 0 gives NaN or a signed infinity
Q(n, d) ==
    IF d = 0 THEN [n |-> Sign(n), d |-> 0]
    ELSE LET g == GCD(Abs(n), Abs(d))
         IN  [n |-> (Sign(d) * n) \div g, d |-> Abs(d) \div g]

Num(i) == [n |-> i, d |-> 1]
NaN == [n |-> 0, d |-> 0]
isFinite(x) == x.d > 0
isNaN(x) == x.d = 0 /\ x.n = 0

\* a + b
QAdd(a, b) ==
    IF isNaN(a) \/ isNaN(b) THEN NaN
    ELSE IF isFinite(a) /\ isFinite(b) THEN Q(a.n * b.d + b.n * a.d, a.d * b.d)
    ELSE IF isFinite(a) THEN b
    ELSE IF isFinite(b) THEN a
    ELSE IF a.n = b.n THEN a ELSE NaN

\* a * b
QMul(a, b) ==
    IF isNaN(a) \/ isNaN(b) THEN NaN
    ELSE IF isFinite(a) /\ isFinite(b) THEN Q(a.n * b.n, a.d * b.d)
    ELSE Q(Sign(a.n) * Sign(b.n), 0)

\* a / b
QDiv(a, b) ==
    IF isNaN(a) \/ isNaN(b) THEN NaN
    ELSE IF isFinite(a) /\ isFinite(b) THEN Q(a.n * b.d, a.d * b.n)
    ELSE IF isFinite(b) THEN Q(a.n * (IF b.n < 0 THEN -1 ELSE 1), 0)
    ELSE IF isFinite(a) THEN Num(0)
    ELSE NaN

QSub(a, b) == QAdd(a, QMul(Num(-1), b))

\* a < b and a <= b; every comparison with NaN is false
QLt(a, b) ==
    IF isNaN(a) \/ isNaN(b) THEN FALSE
    ELSE IF isFinite(a) /\ isFinite(b) THEN a.n * b.d < b.n * a.d
    ELSE IF isFinite(a) THEN b.n > 0
    ELSE IF isFinite(b) THEN a.n < 0
    ELSE a.n < b.n

QLe(a, b) ==
    IF isNaN(a) \/ isNaN(b) THEN FALSE
    ELSE IF isFinite(a) /\ isFinite(b) THEN a.n * b.d <= b.n * a.d
    ELSE IF isFinite(a) THEN b.n > 0
    ELSE IF isFinite(b) THEN a.n < 0
    ELSE a.n <= b.n

\* Math.max, Math.min: NaN if either argument is NaN
QMax(a, b) == IF isNaN(a) \/ isNaN(b) THEN NaN ELSE IF QLt(a, b) THEN b ELSE a
QMin(a, b) == IF isNaN(a) \/ isNaN(b) THEN NaN ELSE IF QLt(b, a) THEN b ELSE a

\* Math.round: the nearest integer, halves towards +Infinity
QRound(x) == IF isFinite(x) THEN Num((2 * x.n + x.d) \div (2 * x.d)) ELSE x

\* Math.ceil
QCeil(x) == IF isFinite(x) THEN Num(-((-x.n) \div x.d)) ELSE x

\* Math.round(x * 100) / 100
Round2(x) == QDiv(QRound(QMul(x, Num(100))), Num(100))

----------------------------------------------------------------------------
(* Sequences of sales rows *)

RECURSIVE SumSeq(_)
SumSeq(s) == IF s = <<>> THEN 0 ELSE Head(s) + SumSeq(Tail(s))

\* Array.prototype.slice(-k)
SliceLast(s, k) ==
    IF Len(s) <= k THEN s ELSE SubSeq(s, Len(s) - k + 1, Len(s))

Quantities(salesData) == [i \in 1..Len(salesData) |-> salesData[i].quantity_sold]

----------------------------------------------------------------------------
(* The estimators of predictions.js *)

Today == now \div TicksPerDay

NULL == <<>>

\* calculateMovingAverage averaging a history shorter than the window over its rows
calculateMovingAveragePartial(salesData, periods) ==
    IF salesData = <<>> THEN Num(0)
    ELSE IF Len(salesData) < periods
    THEN QDiv(Num(SumSeq(Quantities(salesData))), Num(Len(salesData)))
    ELSE QDiv(Num(SumSeq(Quantities(SliceLast(salesData, periods)))), Num(periods))

\* calculateMovingAverage dividing by the number of rows instead of the window size
calculateMovingAverageByLength(salesData, periods) ==
    IF Len(salesData) < periods THEN Num(0)
    ELSE QDiv(Num(SumSeq(Quantities(SliceLast(salesData, periods)))), Num(Len(salesData)))

\* calculateMovingAverage(salesData, periods)
calculateMovingAverage(salesData, periods) ==
    IF Len(salesData) < periods THEN Num(0)
    ELSE LET recentSales == SliceLast(salesData, periods)
             total == SumSeq(Quantities(recentSales))
         IN  QDiv(Num(total), Num(periods))

\* calculateLinearTrend with sumXY not multiplied by the number of points
calculateLinearTrendNoCount(salesData) ==
    IF Len(salesData) < 2 THEN Num(0)
    ELSE LET n == Len(salesData)
             y == Quantities(salesData)
             sumX == SumSeq([i \in 1..n |-> i - 1])
             sumY == SumSeq(y)
             sumXY == SumSeq([i \in 1..n |-> (i - 1) * y[i]])
             sumX2 == SumSeq([i \in 1..n |-> (i - 1) * (i - 1)])
         IN  QDiv(Num(sumXY - sumX * sumY), Num(n * sumX2 - sumX * sumX))

\* calculateLinearTrend without its "fewer than 2 points" guard
calculateLinearTrendUnguarded(salesData) ==
    LET n == Len(salesData)
        y == Quantities(salesData)
        sumX == SumSeq([i \in 1..n |-> i - 1])
        sumY == SumSeq(y)
        sumXY == SumSeq([i \in 1..n |-> (i - 1) * y[i]])
        sumX2 == SumSeq([i \in 1..n |-> (i - 1) * (i - 1)])
    IN  QDiv(Num(n * sumXY - sumX * sumY), Num(n * sumX2 - sumX * sumX))

\* calculateLinearTrend(salesData): least-squares slope against the 0-based index
calculateLinearTrend(salesData) ==
    IF Len(salesData) < 2 THEN Num(0)
    ELSE LET n == Len(salesData)
             y == Quantities(salesData)
             sumX == SumSeq([i \in 1..n |-> i - 1])
             sumY == SumSeq(y)
             sumXY == SumSeq([i \in 1..n |-> (i - 1) * y[i]])
             sumX2 == SumSeq([i \in 1..n |-> (i - 1) * (i - 1)])
         IN  QDiv(Num(n * sumXY - sumX * sumY), Num(n * sumX2 - sumX * sumX))

\* calculateSeasonalFactor adjusting every history of at least 7 rows
calculateSeasonalFactorFromSeven(salesData) ==
    IF Len(salesData) < 7 THEN Num(1)
    ELSE LET recentAvg == calculateMovingAverage(SliceLast(salesData, 7), 7)
             historicalAvg == calculateMovingAverage(salesData, Len(salesData))
         IN  IF QLt(Num(0), historicalAvg)
             THEN QMax(Q(1, 2), QMin(Num(2), QDiv(recentAvg, historicalAvg)))
             ELSE Num(1)

\* calculateSeasonalFactor without the clamp to [0.5, 2.0]
calculateSeasonalFactorUnclamped(salesData) ==
    IF Len(salesData) < 14 THEN Num(1)
    ELSE LET recentAvg == calculateMovingAverage(SliceLast(salesData, 7), 7)
             historicalAvg == calculateMovingAverage(salesData, Len(salesData))
         IN  IF QLt(Num(0), historicalAvg) THEN QDiv(recentAvg, historicalAvg) ELSE Num(1)

\* calculateSeasonalFactor(salesData)
calculateSeasonalFactor(salesData) ==
    IF Len(salesData) < 14 THEN Num(1)
    ELSE LET recentAvg == calculateMovingAverage(SliceLast(salesData, 7), 7)
             historicalAvg == calculateMovingAverage(salesData, Len(salesData))
         IN  IF QLt(Num(0), historicalAvg)
             THEN QMax(Q(1, 2), QMin(Num(2), QDiv(recentAvg, historicalAvg)))
             ELSE Num(1)

\* Math.sqrt(v) is kept as its radicand: the record stands for the square root of .sq
Sqrt(v) == [sq |-> v]

\* sqrt(s.sq) <= t, for a rational t
SqrtLe(s, t) == QLe(Num(0), t) /\ QLe(s.sq, QMul(t, t))

\* the squared deviations of the values y from mean, added up (by halves: the exact
\* sum does not depend on the order of the additions)
RECURSIVE SumSqDev(_, _)
SumSqDev(y, mean) ==
    IF y = <<>> THEN Num(0)
    ELSE IF Len(y) = 1
    THEN LET dev == QSub(Num(y[1]), mean)
         IN  QMul(dev, dev)
    ELSE LET half == Len(y) \div 2
         IN  QAdd(SumSqDev(SubSeq(y, 1, half), mean),
                  SumSqDev(SubSeq(y, half + 1, Len(y)), mean))

\* calculateVariability as the sample standard deviation (dividing by n - 1)
calculateVariabilitySample(salesData) ==
    IF Len(salesData) < 2 THEN Sqrt(Num(0))
    ELSE LET y == Quantities(salesData)
             mean == QDiv(Num(SumSeq(y)), Num(Len(salesData)))
             variance == QDiv(SumSqDev(y, mean), Num(Len(salesData) - 1))
         IN  Sqrt(variance)

\* calculateVariability(salesData): the population standard deviation
calculateVariability(salesData) ==
    IF Len(salesData) < 2 THEN Sqrt(Num(0))
    ELSE LET y == Quantities(salesData)
             mean == QDiv(Num(SumSeq(y)), Num(Len(salesData)))
             variance == QDiv(SumSqDev(y, mean), Num(Len(salesData)))
         IN  Sqrt(variance)

\* k - 1/2 <= 100 * base * (1 - sd/5), that is  sd <= 5 * (1 - (2k - 1) / (200 * base))
reaches(variability, baseConfidence, k) ==
    SqrtLe(variability,
           QMul(Num(5), QSub(Num(1), QDiv(Num(2 * k - 1), QMul(Num(200), baseConfidence)))))

\* Math.round(x) for x = 100 * base * max(0, 1 - sd/5): the largest k of lo..hi with
\* k - 1/2 <= x (k = 0 always qualifies), found by bisection
RECURSIVE roundScore(_, _, _, _)
roundScore(variability, baseConfidence, lo, hi) ==
    IF lo >= hi THEN lo
    ELSE LET mid == (lo + hi + 1) \div 2
         IN  IF reaches(variability, baseConfidence, mid)
             THEN roundScore(variability, baseConfidence, mid, hi)
             ELSE roundScore(variability, baseConfidence, lo, mid - 1)

\* the confidence with full base confidence from 20 data points on
confidenceOfTwenty(dataPoints, variability) ==
    LET baseConfidence == QMin(QDiv(Num(dataPoints), Num(20)), Num(1))
    IN  QDiv(Num(roundScore(variability, baseConfidence, 0, 100)), Num(100))

\* lines 79-83: Math.round(baseConfidence * Math.max(0, 1 - variability / 5) * 100) / 100
confidence(dataPoints, variability) ==
    LET baseConfidence == QMin(QDiv(Num(dataPoints), Num(30)), Num(1))
    IN  QDiv(Num(roundScore(variability, baseConfidence, 0, 100)), Num(100))

\* the velocity without the 0.1 floor
velocityNoFloor(salesData) ==
    LET movingAverage == calculateMovingAverage(salesData, 7)
        trend == calculateLinearTrend(SliceLast(salesData, 14))
        seasonalFactor == calculateSeasonalFactor(salesData)
    IN  QMul(QAdd(movingAverage, QMul(trend, Q(1, 2))), seasonalFactor)

\* the velocity with the trend of the whole history
velocityWholeTrend(salesData) ==
    LET movingAverage == calculateMovingAverage(salesData, 7)
        trend == calculateLinearTrend(salesData)
        seasonalFactor == calculateSeasonalFactor(salesData)
        adjustedVelocity == QMul(QAdd(movingAverage, QMul(trend, Q(1, 2))), seasonalFactor)
    IN  QMax(Q(1, 10), adjustedVelocity)

\* lines 59-65: the velocity before the output rounding
velocity(salesData) ==
    LET movingAverage == calculateMovingAverage(salesData, 7)
        trend == calculateLinearTrend(SliceLast(salesData, 14))
        seasonalFactor == calculateSeasonalFactor(salesData)
        adjustedVelocity == QMul(QAdd(movingAverage, QMul(trend, Q(1, 2))), seasonalFactor)
    IN  QMax(Q(1, 10), adjustedVelocity)

\* the run-out date without the one-year horizon
runOutDateNoHorizon(daysUntilRunOut) ==
    IF QLt(Num(0), daysUntilRunOut)
    THEN <<Today + QCeil(daysUntilRunOut).n>>
    ELSE NULL

\* the run-out date counted from day 0 instead of the date of the call
runOutDateFromDayZero(daysUntilRunOut) ==
    IF QLt(Num(0), daysUntilRunOut) /\ QLt(daysUntilRunOut, Num(365))
    THEN <<QCeil(daysUntilRunOut).n>>
    ELSE NULL

\* lines 70-76: new Date() plus Math.ceil(daysUntilRunOut) days, or null
runOutDate(daysUntilRunOut) ==
    IF QLt(Num(0), daysUntilRunOut) /\ QLt(daysUntilRunOut, Num(365))
    THEN <<Today + QCeil(daysUntilRunOut).n>>
    ELSE NULL

\* predictStockDepletion without the empty-history return
predictStockDepletionNoEmptyCase(currentStock, salesData, reorderPoint) ==
    LET salesVelocity == velocity(salesData)
        daysUntilRunOut == QDiv(Num(currentStock), salesVelocity)
    IN  [salesVelocity |-> Round2(salesVelocity),
         predictedRunOutDate |-> runOutDate(daysUntilRunOut),
         confidenceScore |-> confidence(Len(salesData), calculateVariability(salesData)),
         seasonalFactor |-> Round2(calculateSeasonalFactor(salesData))]

\* predictStockDepletion(currentStock, salesData, reorderPoint)
predictStockDepletion(currentStock, salesData, reorderPoint) ==
    IF Len(salesData) = 0
    THEN [salesVelocity |-> Num(0), predictedRunOutDate |-> NULL,
          confidenceScore |-> Num(0), seasonalFactor |-> Num(1)]
    ELSE LET salesVelocity == velocity(salesData)
             daysUntilRunOut == QDiv(Num(currentStock), salesVelocity)
         IN  [salesVelocity |-> Round2(salesVelocity),
              predictedRunOutDate |-> runOutDate(daysUntilRunOut),
              confidenceScore |-> confidence(Len(salesData), calculateVariability(salesData)),
              seasonalFactor |-> Round2(calculateSeasonalFactor(salesData))]

----------------------------------------------------------------------------
(* The database (database/init.js) and the request in progress *)

dbVars == <<inventory_items, sales_data, predictions, issued, gen, res, overview>>

\* at: the day of the predictStockDepletion call for the current item; handed: the
\* sales rows and the day of the call for every item already processed
GenIdle == [pc |-> "idle", items |-> <<>>, i |-> 0, salesData |-> <<>>,
            prediction |-> <<>>, out |-> <<>>, at |-> 0, handed |-> <<>>]

NoResponse == [route |-> "none", status |-> 0, body |-> <<>>]

\* the keys of the object queries (lines 260-278)
StatsKeys == {"total", "lowStock", "critical", "avgVelocity"}

\* const stats = {}: no key set
NoStats == [key \in StatsKeys |-> NULL]

\* no statistics request is under way.  pending: the queries whose callback has not
\* run; sent: the calls of res.json in order (a call after the first finds the headers
\* sent, writes nothing and throws ERR_HTTP_HEADERS_SENT out of the callback: thrown)
StatsIdle == [started |-> FALSE, pending |-> {}, stats |-> NoStats, completed |-> 0,
              sent |-> <<>>, thrown |-> FALSE]

\* the ids uuidv4() hands out under SpecUpload only
SpareUuids == {"item-2"}

\* the tables after initializeDatabase with every row deleted; the spare ids count as
\* issued, which leaves one id, and so one stored item at a time
InitDb ==
    /\ inventory_items = <<>>
    /\ sales_data = <<>>
    /\ predictions = <<>>
    /\ issued = SpareUuids
    /\ gen = GenIdle
    /\ overview = StatsIdle
    /\ res = NoResponse

----------------------------------------------------------------------------
(* Request inputs *)

\* the ids uuidv4() draws from; an id is issued once
Uuids == {"item-1"} \cup SpareUuids

\* the ids of the items of the tables drawn for the read-only routes, in the order
\* of their creation
AlertUuids == <<"item-1", "item-2">>

Names == {"Widget"}
Categories == {"General"}
\* a missing (undefined) request field
Missing == ""
\* <<currentStock, reorderPoint>> of a created or updated item
ItemLevels == {<<0, 10>>, <<1, 0>>, <<5, 0>>, <<5, 10>>}
\* <<quantitySold, saleDate>> of an uploaded sale
Sales == {<<1, -90>>, <<3, -1>>}

\* the records a sales file parses to (processCsvFile, processJsonFile): records
\* without a name, a non-zero quantity or a date are dropped by the parsers
SalesRecords ==
    {[itemName |-> name, itemCategory |-> category, quantitySold |-> sale[1],
      saleDate |-> sale[2]] :
        name \in Names, category \in Categories \cup {Missing}, sale \in Sales}

SalesFiles == UNION {[1..k -> SalesRecords] : k \in 1..MaxRecords}

----------------------------------------------------------------------------
(* routes/inventory.js *)

\* POST /api/inventory: 400 without a name or a category, else one INSERT
CreateItem ==
    /\ \E name \in Names, category \in Categories \cup {Missing}, level \in ItemLevels :
          IF name = Missing \/ category = Missing
          THEN UNCHANGED <<inventory_items, issued>>
          ELSE \E id \in Uuids \ issued :
                  /\ issued' = issued \cup {id}
                  /\ inventory_items' =
                         Append(inventory_items,
                                [id |-> id, name |-> name, category |-> category,
                                 current_stock |-> level[1], reorder_point |-> level[2]])
    /\ res' = NoResponse
    /\ UNCHANGED <<now, input, calls, sales_data, predictions, gen, overview>>

\* PUT /api/inventory/:id: one UPDATE (404 when it changes no row)
UpdateItem ==
    /\ \E id \in Uuids, name \in Names, category \in Categories, level \in ItemLevels :
          inventory_items' =
              [k \in 1..Len(inventory_items) |->
                  IF inventory_items[k].id = id
                  THEN [id |-> id, name |-> name, category |-> category,
                        current_stock |-> level[1], reorder_point |-> level[2]]
                  ELSE inventory_items[k]]
    /\ res' = NoResponse
    /\ UNCHANGED <<now, input, calls, sales_data, predictions, issued, gen, overview>>

\* DELETE /api/inventory/:id: one DELETE (404 when it changes no row); the rows of
\* sales_data and predictions that reference the item stay
DeleteItem ==
    /\ \E id \in Uuids :
          inventory_items' = SelectSeq(inventory_items, LAMBDA item : item.id # id)
    /\ res' = NoResponse
    /\ UNCHANGED <<now, input, calls, sales_data, predictions, issued, gen, overview>>

----------------------------------------------------------------------------
(* routes/upload.js *)

\* findOrCreateItem(itemName, itemCategory) on the tables of st: a missing category is
\* bound as NULL, which equals no stored category (st.exhausted: the model has no
\* id left for a new item)
findOrCreateItem(st, itemName, itemCategory) ==
    LET found == {k \in 1..Len(st.items) :
                     /\ st.items[k].name = itemName
                     /\ itemCategory # Missing
                     /\ st.items[k].category = itemCategory}
    IN  IF found # {}
        THEN [st EXCEPT !.itemId = st.items[CHOOSE k \in found : \A j \in found : k <= j].id]
        ELSE IF Uuids \ st.issued = {} THEN [st EXCEPT !.exhausted = TRUE]
        ELSE LET id == CHOOSE u \in Uuids \ st.issued : TRUE
             IN [st EXCEPT
                 !.itemId = id,
                 !.issued = st.issued \cup {id},
                 !.newItems = st.newItems + 1,
                 !.items = Append(st.items,
                                  [id |-> id, name |-> itemName,
                                   category |-> IF itemCategory = Missing
                                                THEN "General" ELSE itemCategory,
                                   current_stock |-> 0, reorder_point |-> 10])]

\* saveSalesData(salesData): for every record, find or create the item and insert one
\* sales_data row
RECURSIVE saveSalesData(_, _)
saveSalesData(st, salesData) ==
    IF salesData = <<>> \/ st.exhausted THEN st
    ELSE LET record == Head(salesData)
             found == findOrCreateItem(st, record.itemName, record.itemCategory)
             saved == [found EXCEPT
                          !.sales = Append(found.sales,
                                           [item_id |-> found.itemId,
                                            quantity_sold |-> record.quantitySold,
                                            sale_date |-> record.saleDate]),
                          !.recordsProcessed = found.recordsProcessed + 1]
         IN  saveSalesData(saved, Tail(salesData))

\* POST /api/upload/sales-data
UploadSalesData ==
    /\ UNCHANGED <<now, input, calls, predictions, gen, overview>>
    /\ \E file \in SalesFiles :
        LET st == saveSalesData([items |-> inventory_items, sales |-> sales_data,
                                 issued |-> issued, itemId |-> "", newItems |-> 0,
                                 recordsProcessed |-> 0, exhausted |-> FALSE], file)
        IN  /\ Len(st.sales) <= MaxSales
            /\ ~st.exhausted
            /\ inventory_items' = st.items
            /\ sales_data' = st.sales
            /\ issued' = st.issued
            /\ res' = NoResponse
----------------------------------------------------------------------------
(* routes/predictions.js: POST /generate *)

\* the orders in which a query may return the rows of table at the indices idx under
\* ORDER BY key ASC (Before(a, b): row a must precede row b); rows with equal keys
\* come in any order
Orderings(idx, Before(_, _)) ==
    {f \in [1..Cardinality(idx) -> idx] :
        /\ \A a, b \in 1..Cardinality(idx) : a # b => f[a] # f[b]
        /\ \A a, b \in 1..Cardinality(idx) : a < b => ~Before(f[b], f[a])}

\* SELECT quantity_sold, sale_date FROM sales_data WHERE item_id = ? AND
\* sale_date >= date('now', '-90 days') ORDER BY sale_date ASC
salesQuery(item_id) ==
    LET idx == {k \in 1..Len(sales_data) :
                   /\ sales_data[k].item_id = item_id
                   /\ sales_data[k].sale_date >= Today - 90}
    IN  {[a \in 1..Cardinality(idx) |->
             [quantity_sold |-> sales_data[f[a]].quantity_sold,
              sale_date |-> sales_data[f[a]].sale_date]] :
         f \in Orderings(idx, LAMBDA j, k : sales_data[j].sale_date < sales_data[k].sale_date)}

\* the response once the loop over the items has ended
generateResponse(out) ==
    [route |-> "POST /predictions/generate", status |-> 200, body |-> out]

\* lines 104-112: SELECT * FROM inventory_items, then the loop starts
GenerateStart ==
    /\ gen.pc = "idle"
    /\ Len(predictions) + Len(inventory_items) <= MaxPredictions
    /\ IF inventory_items = <<>>
       THEN /\ res' = generateResponse(<<>>)
            /\ UNCHANGED gen
       ELSE /\ gen' = [GenIdle EXCEPT !.pc = "sales", !.items = inventory_items, !.i = 1]
            /\ res' = NoResponse
    /\ UNCHANGED <<now, input, calls, inventory_items, sales_data, predictions, issued, overview>>

\* GenerateStart for the long runs of SpecGenerate: predictions grows to MaxHistory rows
GenerateStartMany ==
    /\ gen.pc = "idle"
    /\ Len(predictions) + Len(inventory_items) <= MaxHistory
    /\ IF inventory_items = <<>>
       THEN /\ res' = generateResponse(<<>>)
            /\ UNCHANGED gen
       ELSE /\ gen' = [GenIdle EXCEPT !.pc = "sales", !.items = inventory_items, !.i = 1]
            /\ res' = NoResponse
    /\ UNCHANGED <<now, input, calls, inventory_items, sales_data, predictions, issued, overview>>

\* GenerateStart for the failing runs of SpecGenerateFail: predictions grows to
\* MaxFailRows rows
GenerateStartFew ==
    /\ gen.pc = "idle"
    /\ Len(predictions) + Len(inventory_items) <= MaxFailRows
    /\ IF inventory_items = <<>>
       THEN /\ res' = generateResponse(<<>>)
            /\ UNCHANGED gen
       ELSE /\ gen' = [GenIdle EXCEPT !.pc = "sales", !.items = inventory_items, !.i = 1]
            /\ res' = NoResponse
    /\ UNCHANGED <<now, input, calls, inventory_items, sales_data, predictions, issued, overview>>

\* the prediction of every item computed from the stock of the first item
GenerateSalesFirstStock ==
    /\ gen.pc = "sales"
    /\ \E salesData \in salesQuery(gen.items[gen.i].id) :
          gen' = [gen EXCEPT
                     !.pc = "insert",
                     !.salesData = salesData,
                     !.at = Today,
                     !.prediction = <<predictStockDepletion(gen.items[1].current_stock,
                                                            salesData,
                                                            gen.items[gen.i].reorder_point)>>]
    /\ res' = NoResponse
    /\ UNCHANGED <<now, input, calls, inventory_items, sales_data, predictions, issued, overview>>

\* lines 116-136: the sales query of the current item, and the prediction from its rows
GenerateSales ==
    /\ gen.pc = "sales"
    /\ \E salesData \in salesQuery(gen.items[gen.i].id) :
          gen' = [gen EXCEPT
                     !.pc = "insert",
                     !.salesData = salesData,
                     !.at = Today,
                     !.prediction = <<predictStockDepletion(gen.items[gen.i].current_stock,
                                                            salesData,
                                                            gen.items[gen.i].reorder_point)>>]
    /\ res' = NoResponse
    /\ UNCHANGED <<now, input, calls, inventory_items, sales_data, predictions, issued, overview>>

\* lines 138-168: INSERT INTO predictions, then the next item or the response
GenerateInsert ==
    /\ gen.pc = "insert"
    /\ LET item == gen.items[gen.i]
           prediction == gen.prediction[1]
           out == Append(gen.out, [itemId |-> item.id, prediction |-> prediction])
       IN  /\ predictions' =
                  Append(predictions,
                         [item_id |-> item.id,
                          predicted_run_out_date |-> prediction.predictedRunOutDate,
                          confidence_score |-> prediction.confidenceScore,
                          sales_velocity |-> prediction.salesVelocity,
                          seasonal_factor |-> prediction.seasonalFactor,
                          prediction_date |-> now])
           /\ IF gen.i < Len(gen.items)
              THEN /\ gen' = [gen EXCEPT !.pc = "sales", !.i = gen.i + 1, !.salesData = <<>>,
                                         !.prediction = <<>>, !.out = out, !.at = 0,
                                         !.handed = Append(gen.handed,
                                                           [salesData |-> gen.salesData,
                                                            at |-> gen.at])]
                   /\ res' = NoResponse
              ELSE /\ gen' = GenIdle
                   /\ res' = generateResponse(out)
    /\ UNCHANGED <<now, input, calls, inventory_items, sales_data, issued, overview>>

\* the response of the catch block
generateError ==
    [route |-> "POST /predictions/generate", status |-> 500, body |-> <<>>]

\* a failing database call that takes the rows of the run out of predictions again
GenerateFailRollback ==
    /\ res' = generateError
    /\ gen' = GenIdle
    /\ predictions' = SubSeq(predictions, 1, Len(predictions) - Len(gen.out))
    /\ UNCHANGED <<now, input, calls, inventory_items, sales_data, issued, overview>>

\* lines 105-110, 118-131, 139-159, 175-178: a database call of the request (the items
\* query, the sales query or the INSERT of the current item) fails, its promise
\* rejects, and the catch block answers 500
GenerateFail ==
    /\ res' = generateError
    /\ gen' = GenIdle
    /\ UNCHANGED <<now, input, calls, inventory_items, sales_data, predictions, issued, overview>>

----------------------------------------------------------------------------
(* routes/predictions.js: GET /alerts/low-stock *)

\* a <= b on nullable dates is true (neither false nor NULL)
DateLe(a, b) == a # NULL /\ b # NULL /\ a[1] <= b[1]

\* date('now', '+N days')
DateNow(days) == <<Today + days>>

\* alert_level with the warning case open to every item above its reorder point
alert_levelAnyDate(current_stock, reorder_point, predicted_run_out_date) ==
    IF current_stock <= 0 THEN "critical"
    ELSE IF current_stock <= reorder_point THEN "low"
    ELSE IF predicted_run_out_date # NULL THEN "warning"
    ELSE "safe"

\* lines 313-318: the CASE expression alert_level
alert_level(current_stock, reorder_point, predicted_run_out_date) ==
    IF current_stock <= 0 THEN "critical"
    ELSE IF current_stock <= reorder_point THEN "low"
    ELSE IF DateLe(predicted_run_out_date, DateNow(7)) THEN "warning"
    ELSE "safe"

\* the WHERE clause with an absent date passing the date test
alertsWhereAbsentPasses(current_stock, reorder_point, predicted_run_out_date) ==
    \/ current_stock <= reorder_point
    \/ predicted_run_out_date = NULL
    \/ DateLe(predicted_run_out_date, DateNow(14))

\* lines 329-330: the WHERE clause
alertsWhere(current_stock, reorder_point, predicted_run_out_date) ==
    \/ current_stock <= reorder_point
    \/ DateLe(predicted_run_out_date, DateNow(14))

\* lines 332-336: the CASE expression of ORDER BY
alertsRank(current_stock, reorder_point) ==
    IF current_stock <= 0 THEN 1
    ELSE IF current_stock <= reorder_point THEN 2
    ELSE 3

\* lines 320-328: the rows of predictions that ROW_NUMBER() ... ORDER BY prediction_date
\* DESC may number 1 for the item: a row with the latest prediction_date
latest(item_id) ==
    {k \in 1..Len(predictions) :
        /\ predictions[k].item_id = item_id
        /\ \A j \in 1..Len(predictions) :
              predictions[j].item_id = item_id
                  => predictions[j].prediction_date <= predictions[k].prediction_date}

\* the row of the LEFT JOIN for item i with the prediction row p (0: no prediction)
joinedRow(i, p) ==
    LET item == inventory_items[i]
        date == IF p = 0 THEN NULL ELSE predictions[p].predicted_run_out_date
    IN  [id |-> item.id,
         currentStock |-> item.current_stock,
         reorderPoint |-> item.reorder_point,
         predictedRunOut |-> date,
         salesVelocity |-> IF p = 0 THEN <<>> ELSE <<predictions[p].sales_velocity>>,
         confidenceScore |-> IF p = 0 THEN <<>> ELSE <<predictions[p].confidence_score>>,
         alertLevel |-> alert_level(item.current_stock, item.reorder_point, date)]

\* ORDER BY rank alone: row a sorts strictly before row b
alertsBeforeRankOnly(a, b) ==
    alertsRank(a.currentStock, a.reorderPoint) < alertsRank(b.currentStock, b.reorderPoint)

\* ORDER BY rank, predicted_run_out_date ASC: row a sorts strictly before row b
\* (SQLite sorts NULL before every value)
alertsBefore(a, b) ==
    LET ra == alertsRank(a.currentStock, a.reorderPoint)
        rb == alertsRank(b.currentStock, b.reorderPoint)
    IN  \/ ra < rb
        \/ /\ ra = rb
           /\ \/ a.predictedRunOut = NULL /\ b.predictedRunOut # NULL
              \/ /\ a.predictedRunOut # NULL
                 /\ b.predictedRunOut # NULL
                 /\ a.predictedRunOut[1] < b.predictedRunOut[1]

\* GET /api/predictions/alerts/low-stock.  The response keeps, beside the rows sent,
\* the rows of the join before WHERE.
GetAlerts ==
    /\ \E pick \in [1..Len(inventory_items) -> 0..Len(predictions)] :
          /\ \A i \in 1..Len(inventory_items) :
                IF latest(inventory_items[i].id) = {}
                THEN pick[i] = 0
                ELSE pick[i] \in latest(inventory_items[i].id)
          /\ LET joined == [i \in 1..Len(inventory_items) |-> joinedRow(i, pick[i])]
                 idx == {i \in 1..Len(joined) :
                            alertsWhere(joined[i].currentStock, joined[i].reorderPoint,
                                        joined[i].predictedRunOut)}
             IN  \E f \in Orderings(idx, LAMBDA j, k : alertsBefore(joined[j], joined[k])) :
                    res' = [route |-> "GET /predictions/alerts/low-stock", status |-> 200,
                            body |-> [joined |-> joined,
                                      rows |-> [a \in 1..Cardinality(idx) |-> joined[f[a]]]]]
    /\ UNCHANGED <<now, input, calls, inventory_items, sales_data, predictions, issued, gen, overview>>

----------------------------------------------------------------------------
(* routes/inventory.js: GET / and GET /stats/overview *)

\* lines 21-25: the CASE expression status
listStatus(current_stock, reorder_point) ==
    IF current_stock <= 0 THEN "critical"
    ELSE IF current_stock <= reorder_point THEN "low"
    ELSE "safe"

\* lines 73-90: the entry of items for item i joined with the prediction row p
\* (0: no prediction)
listingRow(i, p) ==
    LET item == inventory_items[i]
    IN  [id |-> item.id,
         name |-> item.name,
         category |-> item.category,
         currentStock |-> item.current_stock,
         reorderPoint |-> item.reorder_point,
         status |-> [level |-> listStatus(item.current_stock, item.reorder_point),
                     quantity |-> item.current_stock],
         salesVelocity |-> IF p = 0 THEN Num(0) ELSE predictions[p].sales_velocity,
         predictedRunOut |-> IF p = 0 THEN NULL ELSE predictions[p].predicted_run_out_date,
         confidenceScore |-> IF p = 0 THEN NULL ELSE <<predictions[p].confidence_score>>]

\* ORDER BY i.name: the name of row a sorts strictly before that of row b (the items
\* of the model carry one name, so no row must precede another)
nameBefore(a, b) == FALSE

\* GET /api/inventory without filters, first page (limit 50): every item with its
\* status and the prediction numbered 1 for it
GetInventory ==
    /\ \E pick \in [1..Len(inventory_items) -> 0..Len(predictions)] :
          /\ \A i \in 1..Len(inventory_items) :
                IF latest(inventory_items[i].id) = {}
                THEN pick[i] = 0
                ELSE pick[i] \in latest(inventory_items[i].id)
          /\ \E f \in Orderings(1..Len(inventory_items),
                                LAMBDA j, k : nameBefore(inventory_items[j].name,
                                                         inventory_items[k].name)) :
                res' = [route |-> "GET /inventory", status |-> 200,
                        body |-> [items |-> [a \in 1..Len(inventory_items) |->
                                                listingRow(f[a], pick[f[a]])],
                                  total |-> Len(inventory_items)]]
    /\ UNCHANGED <<now, input, calls, inventory_items, sales_data, predictions, issued, gen,
                   overview>>

\* the rows of predictions the INNER JOIN of avgVelocity keeps: those with the greatest
\* prediction_date of their item
statsLatest ==
    {p \in 1..Len(predictions) :
        \A j \in 1..Len(predictions) :
            predictions[j].item_id = predictions[p].item_id
                => predictions[j].prediction_date <= predictions[p].prediction_date}

\* the sales_velocity of the rows k, k + 1, ... of statsLatest, added up
RECURSIVE statsVelocitySum(_)
statsVelocitySum(k) ==
    IF k > Len(predictions) THEN Num(0)
    ELSE QAdd(IF k \in statsLatest THEN predictions[k].sales_velocity ELSE Num(0),
              statsVelocitySum(k + 1))

\* the statistics with lowStock counting every item at or below its reorder point
statsQueryOverlapping(key) ==
    CASE key = "total" -> Len(inventory_items)
      [] key = "lowStock" ->
            Cardinality({k \in 1..Len(inventory_items) :
                            inventory_items[k].current_stock
                                <= inventory_items[k].reorder_point})
      [] key = "critical" ->
            Cardinality({k \in 1..Len(inventory_items) :
                            inventory_items[k].current_stock <= 0})
      [] key = "avgVelocity" ->
            IF statsLatest = {} THEN Num(0)
            ELSE QDiv(statsVelocitySum(1), Num(Cardinality(statsLatest)))

\* lines 260-278 and 289: the value stored in stats[key] (counts are integers,
\* avgVelocity is a rational; AVG over no row is NULL, stored as 0)
statsQuery(key) ==
    CASE key = "total" -> Len(inventory_items)
      [] key = "lowStock" ->
            Cardinality({k \in 1..Len(inventory_items) :
                            /\ inventory_items[k].current_stock
                                  <= inventory_items[k].reorder_point
                            /\ inventory_items[k].current_stock > 0})
      [] key = "critical" ->
            Cardinality({k \in 1..Len(inventory_items) :
                            inventory_items[k].current_stock <= 0})
      [] key = "avgVelocity" ->
            IF statsLatest = {} THEN Num(0)
            ELSE QDiv(statsVelocitySum(1), Num(Cardinality(statsLatest)))

\* res.json(...) or res.status(500).json(...) in a callback of the request o: the
\* first call sends the response; a later call finds the headers sent and throws out
\* of the callback, which ends the process with the callbacks still pending
statsSend(o, status, body) ==
    IF o.sent = <<>>
    THEN [o EXCEPT !.sent = <<[status |-> status, body |-> body]>>]
    ELSE [o EXCEPT !.sent = Append(@, [status |-> status, body |-> body]),
                   !.thrown = TRUE,
                   !.pending = {}]

\* lines 259-283: the handler queues the four queries and returns
GetStatsOverview ==
    /\ overview.pending = {}
    /\ overview' = [StatsIdle EXCEPT !.started = TRUE, !.pending = StatsKeys]
    /\ res' = NoResponse
    /\ UNCHANGED <<now, input, calls, inventory_items, sales_data, predictions, issued, gen>>

\* lines 284-294, err null: the callback of one pending query stores its value and,
\* as the fourth to complete, sends the statistics
StatsRow ==
    /\ \E key \in overview.pending :
          LET o == [overview EXCEPT !.pending = @ \ {key},
                                    !.stats[key] = <<statsQuery(key)>>,
                                    !.completed = @ + 1]
          IN  overview' = IF o.completed = Cardinality(StatsKeys)
                          THEN statsSend(o, 200, o.stats)
                          ELSE o
    /\ res' = NoResponse
    /\ UNCHANGED <<now, input, calls, inventory_items, sales_data, predictions, issued, gen>>

\* lines 284-287, err set: the callback of one pending query answers 500
StatsError ==
    /\ \E key \in overview.pending :
          overview' = statsSend([overview EXCEPT !.pending = @ \ {key}], 500, NoStats)
    /\ res' = NoResponse
    /\ UNCHANGED <<now, input, calls, inventory_items, sales_data, predictions, issued, gen>>

----------------------------------------------------------------------------
(* routes/predictions.js: GET /chart/:id *)

\* lines 218-226: SELECT DATE(sale_date) as date, SUM(quantity_sold) as daily_sales ...
\* WHERE item_id = ? AND sale_date >= date('now', '-N days') GROUP BY DATE(sale_date)
chartSalesRows(item_id, days) ==
    LET rows == SelectSeq(sales_data,
                          LAMBDA row : /\ row.item_id = item_id
                                       /\ row.sale_date >= Today - days)
    IN  {[date |-> d,
          daily_sales |-> SumSeq(Quantities(SelectSeq(rows, LAMBDA row : row.sale_date = d)))] :
         d \in {rows[k].sale_date : k \in 1..Len(rows)}}

\* lines 229-242: the item with its latest prediction p (0: no prediction)
chartPredRow(i, p) ==
    [current_stock |-> inventory_items[i].current_stock,
     reorder_point |-> inventory_items[i].reorder_point,
     sales_velocity |-> IF p = 0 THEN NULL ELSE <<predictions[p].sales_velocity>>,
     predicted_run_out_date |-> IF p = 0 THEN NULL ELSE predictions[p].predicted_run_out_date]

\* lines 267-270: salesMap[dateStr] || 0
salesMapAt(salesRows, dateStr) ==
    IF \E row \in salesRows : row.date = dateStr
    THEN (CHOOSE row \in salesRows : row.date = dateStr).daily_sales
    ELSE 0

\* line 262: predRow.sales_velocity || 0
chartVelocity(predRow) ==
    IF predRow.sales_velocity = NULL THEN Num(0) ELSE predRow.sales_velocity[1]

\* the chart point whose forecast has no floor at 0
chartPointNoFloor(i, days, predRow, salesRows) ==
    [date |-> Today + i,
     actual |-> IF i <= 0
                THEN <<Num(predRow.current_stock
                           + salesMapAt(salesRows, Today + i) * (days + i))>>
                ELSE NULL,
     predicted |-> IF i <= 0
                   THEN IF i = 0 THEN <<Num(predRow.current_stock)>> ELSE NULL
                   ELSE <<QSub(Num(predRow.current_stock),
                               QMul(chartVelocity(predRow), Num(i)))>>,
     threshold |-> predRow.reorder_point]

\* the chart point whose predicted value is set on every past day as well
chartPointPredictedPast(i, days, predRow, salesRows) ==
    [date |-> Today + i,
     actual |-> IF i <= 0
                THEN <<Num(predRow.current_stock
                           + salesMapAt(salesRows, Today + i) * (days + i))>>
                ELSE NULL,
     predicted |-> IF i <= 0
                   THEN <<Num(predRow.current_stock)>>
                   ELSE <<QMax(Num(0), QSub(Num(predRow.current_stock),
                                            QMul(chartVelocity(predRow), Num(i))))>>,
     threshold |-> predRow.reorder_point]

\* the chart point whose threshold is the stock on hand
chartPointThresholdStock(i, days, predRow, salesRows) ==
    [date |-> Today + i,
     actual |-> IF i <= 0
                THEN <<Num(predRow.current_stock
                           + salesMapAt(salesRows, Today + i) * (days + i))>>
                ELSE NULL,
     predicted |-> IF i <= 0
                   THEN IF i = 0 THEN <<Num(predRow.current_stock)>> ELSE NULL
                   ELSE <<QMax(Num(0), QSub(Num(predRow.current_stock),
                                            QMul(chartVelocity(predRow), Num(i))))>>,
     threshold |-> predRow.current_stock]

\* lines 273-293: the point of the loop index i
chartPoint(i, days, predRow, salesRows) ==
    [date |-> Today + i,
     actual |-> IF i <= 0
                THEN <<Num(predRow.current_stock
                           + salesMapAt(salesRows, Today + i) * (days + i))>>
                ELSE NULL,
     predicted |-> IF i <= 0
                   THEN IF i = 0 THEN <<Num(predRow.current_stock)>> ELSE NULL
                   ELSE <<QMax(Num(0), QSub(Num(predRow.current_stock),
                                            QMul(chartVelocity(predRow), Num(i))))>>,
     threshold |-> predRow.reorder_point]

\* the loop stopping before the last day
chartDataExclusive(days, predRow, salesRows) ==
    [k \in 1..(2 * days) |-> chartPoint(k - days - 1, days, predRow, salesRows)]

\* lines 272-294: for (let i = -days; i <= days; i++) chartData.push(...)
chartData(days, predRow, salesRows) ==
    [k \in 1..(2 * days + 1) |-> chartPoint(k - days - 1, days, predRow, salesRows)]

\* GET /api/predictions/chart/:id?days=N.  The response keeps, beside the series sent,
\* the request and the row of the prediction query.
GetChart ==
    /\ \E id \in {AlertUuids[k] : k \in 1..Len(AlertUuids)}, days \in 0..MaxChartDays :
          LET found == {i \in 1..Len(inventory_items) : inventory_items[i].id = id}
          IN  IF found = {}
              THEN res' = [route |-> "GET /predictions/chart/:id", status |-> 404,
                           body |-> <<>>]
              ELSE \E i \in found, p \in 0..Len(predictions) :
                      /\ IF latest(id) = {} THEN p = 0 ELSE p \in latest(id)
                      /\ res' = [route |-> "GET /predictions/chart/:id", status |-> 200,
                                 body |-> [id |-> id, days |-> days,
                                           predRow |-> chartPredRow(i, p),
                                           chartData |->
                                               chartData(days, chartPredRow(i, p),
                                                         chartSalesRows(id, days))]]
    /\ UNCHANGED <<now, input, calls, inventory_items, sales_data, predictions, issued, gen, overview>>

----------------------------------------------------------------------------
(* Spec: the requests against the database, and the clock *)

Tick ==
    /\ now < MaxNow
    /\ now' = now + 1
    /\ res' = NoResponse
    /\ UNCHANGED <<input, calls, inventory_items, sales_data, predictions, issued, gen, overview>>

\* no direct call of predictStockDepletion is under way
NoInput == [currentStock |-> 0, salesData |-> <<>>, reorderPoint |-> 0]

Init ==
    /\ now = 0
    /\ input = NoInput
    /\ calls = <<>>
    /\ InitDb

vars == <<now, input, calls, dbVars>>

Next ==
    \/ CreateItem
    \/ UpdateItem
    \/ DeleteItem
    \/ UploadSalesData
    \/ GenerateStart
    \/ GenerateSales
    \/ GenerateInsert
    \/ GetAlerts
    \/ Tick

Spec == Init /\ [][Next]_vars

----------------------------------------------------------------------------
(* SpecPredict: predictStockDepletion applied to inputs drawn from bounded sets *)

Qtys == 0..MaxQty \cup {BigQty}

\* a history of daily rows with the given quantities, one row per day up to yesterday
History(qs) == [i \in 1..Len(qs) |-> [quantity_sold |-> qs[i], sale_date |-> i - 1 - Len(qs)]]

Run(k, q) == [i \in 1..k |-> q]

ShortHistories == UNION {[1..k -> Qtys] : k \in 0..MaxLen}

StepHistories ==
    {Run(a, q1) \o Run(b, q2) : a \in 0..MaxRun, b \in {0, MaxRun \div 2, MaxRun},
                                q1 \in {0, MaxQty, BigQty}, q2 \in {0, MaxQty, BigQty}}

ScenarioA == [currentStock |-> 10, salesData |-> <<>>, reorderPoint |-> 20]
ScenarioB == [currentStock |-> 60, salesData |-> History(Run(30, 2)), reorderPoint |-> 20]

\* <<currentStock, reorderPoint>>
StockLevels == {<<-1, 0>>, <<0, 20>>, <<36, 20>>, <<37, 0>>, <<60, 0>>, <<60, 20>>}

Inputs ==
    {[currentStock |-> c[1], salesData |-> History(qs), reorderPoint |-> c[2]] :
        c \in StockLevels, qs \in ShortHistories \cup StepHistories}
    \cup {ScenarioA, ScenarioB}

InitPredict ==
    /\ now = 0
    /\ input \in Inputs
    /\ calls = <<>>
    /\ InitDb

\* one call of predictStockDepletion with the drawn arguments, at the current date
Predict ==
    /\ Len(calls) < MaxCalls
    /\ calls' = Append(calls,
                       [at |-> Today,
                        result |-> predictStockDepletion(input.currentStock, input.salesData,
                                                         input.reorderPoint)])
    /\ UNCHANGED <<now, input, dbVars>>

\* a day passes between two calls
NextDay ==
    /\ Today < MaxDay
    /\ now' = now + TicksPerDay
    /\ UNCHANGED <<input, calls, dbVars>>

varsPredict == <<now, input, calls, dbVars>>

NextPredict == Predict \/ NextDay

SpecPredict == InitPredict /\ [][NextPredict]_varsPredict

----------------------------------------------------------------------------
(* SpecEstimate: one day of calls of predictStockDepletion on the drawn inputs *)

NextEstimate == Predict

SpecEstimate == InitPredict /\ [][NextEstimate]_varsPredict

----------------------------------------------------------------------------
(* SpecAlerts: GET /alerts/low-stock on tables drawn from bounded sets *)

\* <<currentStock, reorderPoint>> of an item: out of stock, low, above the reorder point
AlertLevels == {<<0, 10>>, <<5, 10>>, <<5, 0>>}
\* predicted_run_out_date of a prediction row
AlertDates == {NULL, <<1>>, <<8>>, <<12>>}
\* prediction_date of a prediction row: an earlier tick, or the tick of Init
AlertStamps == {-1, 0}

AlertItemTables ==
    UNION {{[k \in 1..n |->
                [id |-> AlertUuids[k], name |-> "Widget", category |-> "General",
                 current_stock |-> level[k][1], reorder_point |-> level[k][2]]] :
            level \in [1..n -> AlertLevels]} : n \in 0..Len(AlertUuids)}

AlertPredictionRows ==
    {[item_id |-> AlertUuids[k], predicted_run_out_date |-> date,
      confidence_score |-> Num(0), sales_velocity |-> Q(1, 10),
      seasonal_factor |-> Num(1), prediction_date |-> stamp] :
        k \in 1..Len(AlertUuids), date \in AlertDates, stamp \in AlertStamps}

AlertPredictionTables ==
    UNION {[1..n -> AlertPredictionRows] : n \in 0..MaxAlertPredictions}

InitAlerts ==
    /\ now = 0
    /\ input = NoInput
    /\ calls = <<>>
    /\ inventory_items \in AlertItemTables
    /\ sales_data = <<>>
    /\ predictions \in AlertPredictionTables
    /\ issued = {inventory_items[k].id : k \in 1..Len(inventory_items)}
    /\ gen = GenIdle
    /\ overview = StatsIdle
    /\ res = NoResponse

NextAlerts == GetAlerts \/ Tick

SpecAlerts == InitAlerts /\ [][NextAlerts]_vars

----------------------------------------------------------------------------
(* SpecChart: GET /chart/:id on tables drawn from bounded sets *)

\* <<currentStock, reorderPoint>> of the charted item
ChartLevels == {<<5, 10>>, <<1, 0>>}
\* <<quantitySold, saleDate>> of a stored sale
ChartSales == {<<1, -1>>, <<3, -1>>, <<1, 0>>, <<3, 0>>}
\* sales_velocity of the stored prediction
ChartVelocities == {Num(0), Q(1, 10), Num(3)}

ChartItemTables ==
    {<<>>} \cup {<<[id |-> AlertUuids[1], name |-> "Widget", category |-> "General",
                    current_stock |-> level[1], reorder_point |-> level[2]]>> :
                 level \in ChartLevels}

ChartSalesRows ==
    {[item_id |-> AlertUuids[k], quantity_sold |-> sale[1], sale_date |-> sale[2]] :
        k \in 1..Len(AlertUuids), sale \in ChartSales}

ChartSalesTables == UNION {[1..n -> ChartSalesRows] : n \in 0..MaxChartSales}

ChartPredictionTables ==
    {<<>>} \cup {<<[item_id |-> AlertUuids[1], predicted_run_out_date |-> NULL,
                    confidence_score |-> Num(0), sales_velocity |-> v,
                    seasonal_factor |-> Num(1), prediction_date |-> 0]>> :
                 v \in ChartVelocities}

InitChart ==
    /\ now = 0
    /\ input = NoInput
    /\ calls = <<>>
    /\ inventory_items \in ChartItemTables
    /\ sales_data \in ChartSalesTables
    /\ predictions \in ChartPredictionTables
    /\ issued = {AlertUuids[k] : k \in 1..Len(AlertUuids)}
    /\ gen = GenIdle
    /\ overview = StatsIdle
    /\ res = NoResponse

NextChart == GetChart \/ Tick

SpecChart == InitChart /\ [][NextChart]_vars

----------------------------------------------------------------------------
(* SpecGenerate: repeated runs of POST /generate over stored items *)

\* <<currentStock, reorderPoint>> of a stored item
GenLevels == {<<5, 0>>, <<1, 0>>}
\* the stored sales of one item, as <<quantitySold, saleDate>>
GenHistories == {<<>>, <<<<3, -1>>>>}

GenItemTables ==
    UNION {{[k \in 1..n |->
                [id |-> AlertUuids[k], name |-> "Widget", category |-> "General",
                 current_stock |-> level[k][1], reorder_point |-> level[k][2]]] :
            level \in [1..n -> GenLevels]} : n \in 1..Len(AlertUuids)}

RECURSIVE GenSalesRows(_, _)
GenSalesRows(history, k) ==
    IF k > Len(AlertUuids) THEN <<>>
    ELSE [j \in 1..Len(history[k]) |->
             [item_id |-> AlertUuids[k], quantity_sold |-> history[k][j][1],
              sale_date |-> history[k][j][2]]] \o GenSalesRows(history, k + 1)

GenSalesTables ==
    {GenSalesRows(history, 1) : history \in [1..Len(AlertUuids) -> GenHistories]}

InitGenerate ==
    /\ now = 0
    /\ input = NoInput
    /\ calls = <<>>
    /\ inventory_items \in GenItemTables
    /\ sales_data \in GenSalesTables
    /\ predictions = <<>>
    /\ issued = {AlertUuids[k] : k \in 1..Len(AlertUuids)}
    /\ gen = GenIdle
    /\ overview = StatsIdle
    /\ res = NoResponse

NextGenerate == GenerateStartMany \/ GenerateSales \/ GenerateInsert \/ Tick

SpecGenerate == InitGenerate /\ [][NextGenerate]_vars

----------------------------------------------------------------------------
(* SpecUpload: sales uploads, updates and deletions, with an id for every created item *)

InitUpload ==
    /\ now = 0
    /\ input = NoInput
    /\ calls = <<>>
    /\ inventory_items = <<>>
    /\ sales_data = <<>>
    /\ predictions = <<>>
    /\ issued = {}
    /\ gen = GenIdle
    /\ overview = StatsIdle
    /\ res = NoResponse

NextUpload == UploadSalesData \/ UpdateItem \/ DeleteItem \/ Tick

SpecUpload == InitUpload /\ [][NextUpload]_vars

----------------------------------------------------------------------------
(* SpecStats: GET /stats/overview and GET / on tables drawn from bounded sets *)

\* <<currentStock, reorderPoint>> of an item: out of stock, low, above the reorder
\* point, and out of stock above a negative reorder point
StatsLevels == {<<0, 10>>, <<5, 10>>, <<5, 0>>, <<-1, -2>>}
\* <<predicted_run_out_date, sales_velocity>> of a prediction row
StatsForecasts == {<<<<1>>, Num(3)>>, <<<<12>>, Q(1, 10)>>}

StatsItemTables ==
    UNION {{[k \in 1..n |->
                [id |-> AlertUuids[k], name |-> "Widget", category |-> "General",
                 current_stock |-> level[k][1], reorder_point |-> level[k][2]]] :
            level \in [1..n -> StatsLevels]} : n \in 0..Len(AlertUuids)}

StatsPredictionRows ==
    {[item_id |-> AlertUuids[k], predicted_run_out_date |-> forecast[1],
      confidence_score |-> Num(0), sales_velocity |-> forecast[2],
      seasonal_factor |-> Num(1), prediction_date |-> 0] :
        k \in 1..Len(AlertUuids), forecast \in StatsForecasts}

StatsPredictionTables ==
    UNION {[1..n -> StatsPredictionRows] : n \in 0..MaxStatsPredictions}

InitStats ==
    /\ now = 0
    /\ input = NoInput
    /\ calls = <<>>
    /\ inventory_items \in StatsItemTables
    /\ sales_data = <<>>
    /\ predictions \in StatsPredictionTables
    /\ issued = {inventory_items[k].id : k \in 1..Len(inventory_items)}
    /\ gen = GenIdle
    /\ overview = StatsIdle
    /\ res = NoResponse

NextStats == GetStatsOverview \/ StatsRow \/ StatsError \/ GetInventory

SpecStats == InitStats /\ [][NextStats]_vars

----------------------------------------------------------------------------
(* SpecGenerateFail: runs of POST /generate whose database calls may fail *)

NextGenerateFail ==
    GenerateStartFew \/ GenerateSales \/ GenerateInsert \/ GenerateFail \/ Tick

SpecGenerateFail == InitGenerate /\ [][NextGenerateFail]_vars

----------------------------------------------------------------------------
(* Claims about predictStockDepletion, checked under SpecPredict *)

Called == {calls[i] : i \in 1..Len(calls)}

\* line 68: currentStock / salesVelocity, with the velocity before rounding
daysUntilRunOut == QDiv(Num(input.currentStock), velocity(input.salesData))

\* C1 as stated: every returned result has salesVelocity >= 0.1, whatever the history
C1_Original == \A c \in Called : QLe(Q(1, 10), c.result.salesVelocity)

\* C1: a result returned for a non-empty history has salesVelocity >= 0.1; the result
\* returned for the empty history has salesVelocity 0
C1_VelocityFloor ==
    \A c \in Called :
        IF input.salesData = <<>>
        THEN c.result.salesVelocity = Num(0)
        ELSE QLe(Q(1, 10), c.result.salesVelocity)

C1_Witness ==
    /\ calls # <<>>
    /\ input.salesData # <<>>
    /\ QLt(velocityNoFloor(input.salesData), Q(1, 10))
    /\ calls[1].result.salesVelocity = Q(1, 10)

\* C2: the returned seasonalFactor lies in [0.5, 2.0] and the returned confidenceScore
\* in [0, 1], after the 2-decimal rounding
C2_Ranges ==
    \A c \in Called :
        /\ QLe(Q(1, 2), c.result.seasonalFactor)
        /\ QLe(c.result.seasonalFactor, Num(2))
        /\ QLe(Num(0), c.result.confidenceScore)
        /\ QLe(c.result.confidenceScore, Num(1))

C2_Witness ==
    /\ calls # <<>>
    /\ QLt(Num(2), calculateSeasonalFactorUnclamped(input.salesData))
    /\ calls[1].result.seasonalFactor = Num(2)

\* C3: for the empty history the result is velocity 0, no run-out date, confidence 0 and
\* seasonal factor 1.0, whatever currentStock and reorderPoint are
C3_EmptyHistory ==
    \A c \in Called :
        input.salesData = <<>> =>
            c.result = [salesVelocity |-> Num(0), predictedRunOutDate |-> NULL,
                        confidenceScore |-> Num(0), seasonalFactor |-> Num(1)]

C3_Witness == calls # <<>> /\ input = ScenarioA

\* C4: every call returns a result whose numeric fields are finite numbers and whose
\* run-out date is a date or absent
C4_WellFormed ==
    \A c \in Called :
        /\ isFinite(c.result.salesVelocity)
        /\ isFinite(c.result.confidenceScore)
        /\ isFinite(c.result.seasonalFactor)
        /\ Len(c.result.predictedRunOutDate) <= 1

C4_Witness ==
    /\ calls # <<>>
    /\ Len(input.salesData) = 1
    /\ input.currentStock < 0
    /\ calls[1].result.predictedRunOutDate = NULL

\* C5: for a non-empty history the run-out date is absent exactly when daysUntilRunOut
\* is <= 0 or >= 365, and otherwise it is the call's date plus ceil(daysUntilRunOut),
\* which is 1 to 365 days after the call's date
C5_RunOutDate ==
    \A c \in Called :
        input.salesData # <<>> =>
            LET d == c.result.predictedRunOutDate
            IN  /\ d = NULL <=> (QLe(daysUntilRunOut, Num(0)) \/ QLe(Num(365), daysUntilRunOut))
                /\ d # NULL =>
                      /\ d[1] = c.at + QCeil(daysUntilRunOut).n
                      /\ c.at + 1 <= d[1]
                      /\ d[1] <= c.at + 365

C5_Witness ==
    /\ calls # <<>>
    /\ calls[1].result.predictedRunOutDate # NULL
    /\ QCeil(daysUntilRunOut) # daysUntilRunOut

C7_ScenarioB ==
    \A c \in Called :
        input = ScenarioB =>
            c.result = [salesVelocity |-> Num(2), predictedRunOutDate |-> <<c.at + 30>>,
                        confidenceScore |-> Num(1), seasonalFactor |-> Num(1)]

C7_Witness == calls # <<>> /\ input = ScenarioB

----------------------------------------------------------------------------
(* Claims about the requests (Spec) *)

\* the last step answered GET /api/predictions/alerts/low-stock
Alerted == res.route = "GET /predictions/alerts/low-stock"

\* the run-out dates the latest prediction of the item may have (NULL without one)
latestDates(item_id) ==
    IF latest(item_id) = {} THEN {NULL}
    ELSE {predictions[p].predicted_run_out_date : p \in latest(item_id)}

\* the rows sent hold a row of the item
listed(item_id) == \E a \in 1..Len(res.body.rows) : res.body.rows[a].id = item_id

\* C8 (as stated): the sales rows POST /generate hands to predictStockDepletion hold at
\* most one row per sale date
C8_Original ==
    gen.pc = "insert" =>
        \A a, b \in 1..Len(gen.salesData) :
            a # b => gen.salesData[a].sale_date # gen.salesData[b].sale_date

\* C9 (as stated): every item of the alerts query gets the tier critical when its stock
\* is at most 0, low when its stock is positive and at most the reorder point, warning
\* when its stock is above the reorder point and its latest run-out date exists and is
\* one of today .. today + 7, and safe otherwise
C9_Original ==
    Alerted =>
        \A i \in 1..Len(res.body.joined) :
            LET row == res.body.joined[i]
                date == row.predictedRunOut
            IN  row.alertLevel =
                    IF row.currentStock <= 0 THEN "critical"
                    ELSE IF row.currentStock <= row.reorderPoint THEN "low"
                    ELSE IF date # NULL /\ Today <= date[1] /\ date[1] <= Today + 7
                         THEN "warning"
                    ELSE "safe"

\* C9 (amended): every item of the alerts query gets the tier critical when its stock is
\* at most 0, low when its stock is positive and at most the reorder point, warning
\* when its stock is above the reorder point and its latest run-out date exists and is
\* on or before today + 7 (a date already past included), and safe otherwise; the date
\* is the run-out date of a latest prediction of the item
C9_Tiers ==
    Alerted =>
        /\ Len(res.body.joined) = Len(inventory_items)
        /\ \A i \in 1..Len(inventory_items) :
              LET item == inventory_items[i]
                  row == res.body.joined[i]
                  date == row.predictedRunOut
              IN  /\ row.id = item.id
                  /\ date \in latestDates(item.id)
                  /\ row.alertLevel \in {"critical", "low", "warning", "safe"}
                  /\ row.alertLevel = "critical" <=> item.current_stock <= 0
                  /\ row.alertLevel = "low" <=>
                         0 < item.current_stock /\ item.current_stock <= item.reorder_point
                  /\ row.alertLevel = "warning" <=>
                         /\ 0 < item.current_stock
                         /\ item.current_stock > item.reorder_point
                         /\ date # NULL
                         /\ date[1] <= Today + 7

\* a warning for a run-out date already past
C9_Witness ==
    /\ Alerted
    /\ \E i \in 1..Len(res.body.joined) :
          /\ res.body.joined[i].alertLevel = "warning"
          /\ res.body.joined[i].predictedRunOut[1] < Today

\* C10: an item is in the rows of the alerts view if and only if its stock is at most
\* its reorder point or the run-out date of its latest prediction is on or before
\* today + 14; an item above its reorder point without a prediction, or with an absent
\* run-out date, is not in the rows
C10_Inclusion ==
    Alerted =>
        /\ Len(res.body.joined) = Len(inventory_items)
        /\ \A i \in 1..Len(inventory_items) :
              LET item == inventory_items[i]
                  date == res.body.joined[i].predictedRunOut
              IN  /\ res.body.joined[i].id = item.id
                  /\ date \in latestDates(item.id)
                  /\ listed(item.id) <=>
                         \/ item.current_stock <= item.reorder_point
                         \/ date # NULL /\ date[1] <= Today + 14
                  /\ item.current_stock > item.reorder_point /\ date = NULL
                         => ~listed(item.id)

\* the view lists an item above its reorder point, for the run-out date of its
\* latest prediction
C10_Witness ==
    /\ Alerted
    /\ \E i \in 1..Len(inventory_items) :
          /\ inventory_items[i].current_stock > inventory_items[i].reorder_point
          /\ latest(inventory_items[i].id) # {}
          /\ listed(inventory_items[i].id)

----------------------------------------------------------------------------
(* Claims about the order of the alerts view (SpecAlerts) *)

\* the urgency tiers, most urgent first
TierOrder == <<"critical", "low", "warning", "safe">>
TierRank(tier) == CHOOSE k \in 1..Len(TierOrder) : TierOrder[k] = tier

\* C11: in the rows of the alerts view, a row of a more urgent tier (critical, then low,
\* then warning, then safe) comes before every row of a less urgent tier
C11_TierOrder ==
    Alerted =>
        \A a, b \in 1..Len(res.body.rows) :
            TierRank(res.body.rows[a].alertLevel) < TierRank(res.body.rows[b].alertLevel)
                => a < b

\* the view lists a warning row and a safe row
C11_Witness ==
    /\ Alerted
    /\ \E a, b \in 1..Len(res.body.rows) :
          /\ res.body.rows[a].alertLevel = "warning"
          /\ res.body.rows[b].alertLevel = "safe"

\* C12 (as stated): among the rows of one tier, the run-out dates ascend, and a row
\* without a run-out date comes after every row of the tier that has one
C12_Original ==
    Alerted =>
        \A a, b \in 1..Len(res.body.rows) :
            a < b /\ res.body.rows[a].alertLevel = res.body.rows[b].alertLevel =>
                LET da == res.body.rows[a].predictedRunOut
                    db == res.body.rows[b].predictedRunOut
                IN  /\ da = NULL => db = NULL
                    /\ da # NULL /\ db # NULL => da[1] <= db[1]

----------------------------------------------------------------------------
(* Claims about the chart series (SpecChart) *)

\* the last step answered GET /api/predictions/chart/:id with a series
Charted == res.route = "GET /predictions/chart/:id" /\ res.status = 200

\* the row of the charted item in inventory_items
chartedItem ==
    inventory_items[CHOOSE i \in 1..Len(inventory_items) :
                        inventory_items[i].id = res.body.id]

\* the sales velocities the latest prediction of the charted item may have (0: none)
chartedVelocities ==
    IF latest(res.body.id) = {} THEN {Num(0)}
    ELSE {predictions[p].sales_velocity : p \in latest(res.body.id)}

\* the units of the charted item sold after day d, up to today
soldAfter(d) ==
    SumSeq(Quantities(SelectSeq(sales_data,
                                LAMBDA row : /\ row.item_id = res.body.id
                                             /\ row.sale_date > d
                                             /\ row.sale_date <= Today)))

C14_Future ==
    Charted =>
        \E v \in chartedVelocities :
            \A k \in 1..Len(res.body.chartData) :
                LET point == res.body.chartData[k]
                    offset == point.date - Today
                    level == QSub(Num(chartedItem.current_stock), QMul(v, Num(offset)))
                IN  offset > 0 =>
                        /\ point.actual = NULL
                        /\ point.predicted = <<IF QLt(level, Num(0)) THEN Num(0) ELSE level>>
                        /\ QLe(Num(0), point.predicted[1])
                        /\ \A j \in 1..k :
                              res.body.chartData[j].date > Today =>
                                  QLe(point.predicted[1], res.body.chartData[j].predicted[1])

\* a future point whose forecast is held at 0, after one that is above 0
C14_Witness ==
    /\ Charted
    /\ \E j, k \in 1..Len(res.body.chartData) :
          /\ res.body.chartData[j].date > Today
          /\ j < k
          /\ QLt(Num(0), res.body.chartData[j].predicted[1])
          /\ res.body.chartData[k].predicted = <<Num(0)>>
          /\ QLt(Num(chartedItem.current_stock),
                 QMul(res.body.predRow.sales_velocity[1],
                      Num(res.body.chartData[k].date - Today)))

\* C15 (as stated): every point up to today has the actual value currentStock plus the
\* units sold after its day up to today
C15_Original ==
    Charted =>
        \A k \in 1..Len(res.body.chartData) :
            LET point == res.body.chartData[k]
            IN  point.date <= Today =>
                    point.actual = <<Num(chartedItem.current_stock + soldAfter(point.date))>>

\* C16: the predicted value is absent on every day before today, and on today it is
\* the current stock
C16_Anchor ==
    Charted =>
        \A k \in 1..Len(res.body.chartData) :
            LET point == res.body.chartData[k]
            IN  /\ point.date < Today => point.predicted = NULL
                /\ point.date = Today => point.predicted = <<Num(chartedItem.current_stock)>>

\* a series with a day before today, for an item that has a prediction
C16_Witness ==
    /\ Charted
    /\ res.body.predRow.sales_velocity # NULL
    /\ \E k \in 1..Len(res.body.chartData) : res.body.chartData[k].date < Today

\* C17: every point of the series has the reorder point of the item as its threshold
C17_Threshold ==
    Charted =>
        \A k \in 1..Len(res.body.chartData) :
            res.body.chartData[k].threshold = chartedItem.reorder_point

\* a series of past and future days for an item with sales in the window
C17_Witness ==
    /\ Charted
    /\ res.body.days > 0
    /\ soldAfter(Today - res.body.days - 1) > 0

----------------------------------------------------------------------------
(* Claims about batch generation (SpecGenerate) *)

\* C18 (as stated): the table predictions never holds more than 10 rows of one item
C18_Original ==
    \A k \in 1..Len(AlertUuids) :
        Cardinality({j \in 1..Len(predictions) : predictions[j].item_id = AlertUuids[k]})
            <= HistoryLimit

\* the items of the run already processed whose stock, reorder point and sales rows
\* equal those of the item being processed
sameInputs ==
    {a \in 1..Len(gen.out) :
        /\ gen.items[a].current_stock = gen.items[gen.i].current_stock
        /\ gen.items[a].reorder_point = gen.items[gen.i].reorder_point
        /\ gen.handed[a].salesData = gen.salesData}

----------------------------------------------------------------------------
(* Claims about the estimators (SpecPredict, SpecEstimate) *)

\* the quantities of the rows k, k + 1, ... of history, added up
RECURSIVE totalFrom(_, _)
totalFrom(history, k) ==
    IF k > Len(history) THEN 0
    ELSE history[k].quantity_sold + totalFrom(history, k + 1)

\* C20: for every window of 1 to 7 periods, calculateMovingAverage is 0 on a history
\* with fewer rows than the window, and otherwise the total of the last periods
\* quantities divided by periods, whatever the earlier rows hold
C20_MovingAverage ==
    \A periods \in 1..DefaultPeriods :
        LET history == input.salesData
            average == calculateMovingAverage(history, periods)
        IN  IF Len(history) < periods
            THEN average = Num(0)
            ELSE average = Q(totalFrom(history, Len(history) - periods + 1), periods)

\* predictStockDepletion has run on a history longer than the default window whose
\* mean over all rows is not its mean over the last 7
C20_Witness ==
    /\ calls # <<>>
    /\ Len(input.salesData) > DefaultPeriods
    /\ calculateMovingAverage(input.salesData, DefaultPeriods)
           # Q(totalFrom(input.salesData, 1), Len(input.salesData))
    /\ calculateMovingAverage(input.salesData, DefaultPeriods) # Num(0)

\* the last TrendWindow rows of history
trendRows(history) ==
    IF Len(history) <= TrendWindow THEN history
    ELSE SubSeq(history, Len(history) - TrendWindow + 1, Len(history))

\* the quantities of the rows k, k + 1, ... of history, each weighted by twice the
\* distance of its 0-based index from the mean index, added up
RECURSIVE leverFrom(_, _)
leverFrom(history, k) ==
    IF k > Len(history) THEN 0
    ELSE (2 * (k - 1) - (Len(history) - 1)) * history[k].quantity_sold
             + leverFrom(history, k + 1)

\* the least-squares slope of the quantities against the 0-based index, as covariance
\* over variance: 6 * sum((2x - (n - 1)) * y) / (n * (n^2 - 1))
slopeOf(history) ==
    IF Len(history) < 2 THEN Num(0)
    ELSE Q(6 * leverFrom(history, 1), Len(history) * (Len(history) * Len(history) - 1))

\* the squares of the quantities of the rows k, k + 1, ... of history, added up
RECURSIVE squaresFrom(_, _)
squaresFrom(history, k) ==
    IF k > Len(history) THEN 0
    ELSE history[k].quantity_sold * history[k].quantity_sold + squaresFrom(history, k + 1)

constantHistory(history) ==
    \A j, k \in 1..Len(history) : history[j].quantity_sold = history[k].quantity_sold

\* C21: on the history and on its last 14 rows, calculateLinearTrend is 0 for fewer
\* than 2 rows and otherwise the finite least-squares slope against the 0-based index,
\* which is 0 for constant quantities; the velocity predictStockDepletion reports is
\* computed with the trend of the last 14 rows
C21_Trend ==
    /\ \A history \in {input.salesData, trendRows(input.salesData)} :
          LET trend == calculateLinearTrend(history)
          IN  /\ Len(history) < 2 => trend = Num(0)
              /\ Len(history) >= 2 =>
                    /\ Len(history) * (Len(history) * Len(history) - 1) # 0
                    /\ isFinite(trend)
                    /\ trend = slopeOf(history)
              /\ constantHistory(history) => trend = Num(0)
    /\ \A c \in Called :
          input.salesData # <<>> =>
              c.result.salesVelocity =
                  Round2(QMax(Q(1, 10),
                              QMul(QAdd(calculateMovingAverage(input.salesData, DefaultPeriods),
                                        QMul(slopeOf(trendRows(input.salesData)), Q(1, 2))),
                                   calculateSeasonalFactor(input.salesData))))

\* predictStockDepletion has run on a history of more than 14 rows whose slope over
\* all rows differs from the slope over the last 14, which is not 0
C21_Witness ==
    /\ calls # <<>>
    /\ Len(input.salesData) > TrendWindow
    /\ calculateLinearTrend(trendRows(input.salesData)) # Num(0)
    /\ calculateLinearTrend(trendRows(input.salesData)) # calculateLinearTrend(input.salesData)

\* C22: calculateSeasonalFactor is 1 for fewer than 14 rows and for a history whose
\* quantities add up to 0; otherwise it is the mean of the last 7 quantities over the
\* mean of all quantities, raised to 0.5 or lowered to 2.0 when outside that range
C22_Seasonal ==
    LET history == input.salesData
        n == Len(history)
        factor == calculateSeasonalFactor(history)
        ratio == Q(totalFrom(history, n - DefaultPeriods + 1) * n,
                   DefaultPeriods * totalFrom(history, 1))
    IN  IF n < SeasonalMinimum \/ totalFrom(history, 1) = 0
        THEN factor = Num(1)
        ELSE factor = IF QLt(ratio, Q(1, 2)) THEN Q(1, 2)
                      ELSE IF QLt(Num(2), ratio) THEN Num(2)
                      ELSE ratio

\* predictStockDepletion has run on a history of at least 14 rows whose factor lies
\* strictly between the limits and is not 1
C22_Witness ==
    /\ calls # <<>>
    /\ Len(input.salesData) >= SeasonalMinimum
    /\ QLt(Q(1, 2), calculateSeasonalFactor(input.salesData))
    /\ QLt(calculateSeasonalFactor(input.salesData), Num(2))
    /\ calculateSeasonalFactor(input.salesData) # Num(1)

\* C23: calculateVariability is 0 for fewer than 2 rows and otherwise the square root
\* of the mean squared deviation from the mean, (n * sum(y^2) - sum(y)^2) / n^2; it is
\* 0 for constant quantities
C23_Variability ==
    LET history == input.salesData
        n == Len(history)
        variability == calculateVariability(history)
    IN  /\ n < 2 => variability = Sqrt(Num(0))
        /\ n >= 2 =>
              variability = Sqrt(Q(n * squaresFrom(history, 1)
                                       - totalFrom(history, 1) * totalFrom(history, 1),
                                   n * n))
        /\ constantHistory(history) => variability = Sqrt(Num(0))

\* predictStockDepletion has run on a history of two or more rows that differ
C23_Witness ==
    /\ calls # <<>>
    /\ Len(input.salesData) >= 2
    /\ ~constantHistory(input.salesData)

\* the mean of the last 7 quantities, 0 for fewer than 7 rows
averageOf(history) ==
    IF Len(history) < DefaultPeriods THEN Num(0)
    ELSE Q(totalFrom(history, Len(history) - DefaultPeriods + 1), DefaultPeriods)

\* the mean of the last 7 quantities over the mean of all, kept within [0.5, 2.0];
\* 1 for fewer than 14 rows or quantities adding up to 0
seasonalOf(history) ==
    LET ratio == Q(totalFrom(history, Len(history) - DefaultPeriods + 1) * Len(history),
                   DefaultPeriods * totalFrom(history, 1))
    IN  IF Len(history) < SeasonalMinimum \/ totalFrom(history, 1) = 0 THEN Num(1)
        ELSE IF QLt(ratio, Q(1, 2)) THEN Q(1, 2)
        ELSE IF QLt(Num(2), ratio) THEN Num(2)
        ELSE ratio

\* (movingAverage7 + 0.5 * trend14) * seasonalFactor
adjustedOf(history) ==
    QMul(QAdd(averageOf(history), QMul(slopeOf(trendRows(history)), Q(1, 2))),
         seasonalOf(history))

\* max(0.1, adjusted velocity)
flooredOf(history) ==
    LET adjusted == adjustedOf(history)
    IN  IF QLt(adjusted, Q(1, 10)) THEN Q(1, 10) ELSE adjusted

\* the run-out date of a call on day at: the day at plus currentStock / velocity days
\* rounded up, when that quotient is positive and below 365
runOutOf(at, currentStock, v) ==
    LET days == Q(currentStock * v.d, v.n)
    IN  IF QLt(Num(0), days) /\ QLt(days, Num(365))
        THEN <<at + QCeil(days).n>>
        ELSE NULL

\* C24 as stated: the reported velocity of a non-empty history is the floored adjusted
\* velocity rounded to 2 decimals, the run-out date comes from the unrounded value,
\* and fewer than 7 rows or a negative adjusted velocity give exactly 0.1
C24_Original ==
    \A c \in Called :
        input.salesData # <<>> =>
            /\ c.result.salesVelocity = Round2(flooredOf(input.salesData))
            /\ c.result.predictedRunOutDate
                   = runOutOf(c.at, input.currentStock, flooredOf(input.salesData))
            /\ (Len(input.salesData) < DefaultPeriods
                    \/ QLt(adjustedOf(input.salesData), Num(0)))
                   => c.result.salesVelocity = Q(1, 10)

\* C24: the reported velocity of a non-empty history is the floored adjusted velocity
\* rounded to 2 decimals and the run-out date comes from the unrounded value; a
\* negative adjusted velocity gives exactly 0.1; fewer than 7 rows give
\* max(0.1, 0.5 * trend14) rounded, which is 0.1 when the trend is at most 0.2 and
\* more than 0.1 when the trend is 0.21 or more
C24_Velocity ==
    \A c \in Called :
        input.salesData # <<>> =>
            LET adjusted == adjustedOf(input.salesData)
                floored == IF QLt(adjusted, Q(1, 10)) THEN Q(1, 10) ELSE adjusted
            IN  /\ c.result.salesVelocity = Round2(floored)
                /\ c.result.predictedRunOutDate = runOutOf(c.at, input.currentStock, floored)
                /\ QLt(adjusted, Num(0)) => c.result.salesVelocity = Q(1, 10)
                /\ Len(input.salesData) < DefaultPeriods =>
                      LET trend == slopeOf(input.salesData)
                      IN  /\ adjusted = QMul(trend, Q(1, 2))
                          /\ QLe(trend, Q(1, 5)) => c.result.salesVelocity = Q(1, 10)
                          /\ QLe(Q(21, 100), trend) => QLt(Q(1, 10), c.result.salesVelocity)

\* predictStockDepletion has reported more than 0.1 for a history of fewer than 7 rows
C24_Witness ==
    /\ input.salesData # <<>>
    /\ Len(input.salesData) < DefaultPeriods
    /\ \E c \in Called : QLt(Q(1, 10), c.result.salesVelocity)

\* min(n / 30, 1)
baseOf(n) == IF n >= 30 THEN Num(1) ELSE Q(n, 30)

\* k - 1/2 <= 100 * base * max(0, 1 - sd/5), for the standard deviation sd = sqrt of
\* variability.sq: k <= 0, or sd <= 5 * (1 - (2k - 1) / (200 * base))
scoreReaches(n, variability, k) ==
    \/ k <= 0
    \/ SqrtLe(variability,
              QMul(Num(5), QSub(Num(1), QDiv(Q(2 * k - 1, 200), baseOf(n)))))

\* score = round(base * max(0, 1 - sd/5), 2 decimals)
isScore(n, variability, score) ==
    LET k == (100 * score.n) \div score.d
    IN  /\ isFinite(score)
        /\ k \in 0..100
        /\ score = Q(k, 100)
        /\ scoreReaches(n, variability, k)
        /\ ~scoreReaches(n, variability, k + 1)

\* the variance of the quantities: (n * sum(y^2) - sum(y)^2) / n^2, 0 below 2 rows
varianceOf(history) ==
    IF Len(history) < 2 THEN Num(0)
    ELSE Q(Len(history) * squaresFrom(history, 1)
               - totalFrom(history, 1) * totalFrom(history, 1),
           Len(history) * Len(history))

\* C25 as stated: the confidence of a non-empty history is the rounded product, is 0
\* for a standard deviation of 5 or more, never exceeds min(n/30, 1) and is at least
\* the confidence of every smaller number of points at the same variability
C25_Original ==
    \A c \in Called :
        input.salesData # <<>> =>
            LET n == Len(input.salesData)
                sd == Sqrt(varianceOf(input.salesData))
            IN  /\ isScore(n, sd, c.result.confidenceScore)
                /\ QLe(Num(25), sd.sq) => c.result.confidenceScore = Num(0)
                /\ QLe(c.result.confidenceScore, baseOf(n))
                /\ \A m \in 1..n : QLe(confidence(m, sd), c.result.confidenceScore)

\* C25: the confidence of a non-empty history is the rounded product, is 0 for a
\* standard deviation of 5 or more, exceeds min(n/30, 1) by less than 0.005, never
\* exceeds 1, and is at least the confidence of every smaller number of points at the
\* same variability
C25_Confidence ==
    \A c \in Called :
        input.salesData # <<>> =>
            LET n == Len(input.salesData)
                sd == Sqrt(varianceOf(input.salesData))
            IN  /\ isScore(n, sd, c.result.confidenceScore)
                /\ QLe(Num(25), sd.sq) => c.result.confidenceScore = Num(0)
                /\ QLt(c.result.confidenceScore, QAdd(baseOf(n), Q(1, 200)))
                /\ QLe(c.result.confidenceScore, Num(1))
                /\ \A m \in 1..n : QLe(confidence(m, sd), c.result.confidenceScore)

\* predictStockDepletion has reported a confidence above min(n/30, 1)
C25_Witness ==
    /\ input.salesData # <<>>
    /\ \E c \in Called : QLt(baseOf(Len(input.salesData)), c.result.confidenceScore)

----------------------------------------------------------------------------
(* Claims about the failure of batch generation (SpecGenerateFail) *)

\* the step answers POST /generate with the given status
GenerateAnswers(status) ==
    /\ res'.route = "POST /predictions/generate"
    /\ res'.status = status

\* C26: a run starts with the stored items and no row written; predictions changes
\* only by one new row for the current item of the run, after which the run is at the
\* next item or, after the last item, answers 200 with one entry per item of the run;
\* no item is skipped; a failing database call answers 500, ends the run and leaves
\* the rows already inserted in predictions
C26_Generate ==
    [][/\ (gen.pc = "idle" /\ gen'.pc # "idle") =>
              /\ gen'.items = inventory_items
              /\ gen'.i = 1
              /\ gen'.out = <<>>
              /\ predictions' = predictions
       /\ predictions' # predictions =>
              /\ gen.pc = "insert"
              /\ Len(gen.out) = gen.i - 1
              /\ Len(predictions') = Len(predictions) + 1
              /\ SubSeq(predictions', 1, Len(predictions)) = predictions
              /\ predictions'[Len(predictions')].item_id = gen.items[gen.i].id
              /\ IF gen.i < Len(gen.items)
                 THEN gen'.pc # "idle" /\ gen'.i = gen.i + 1 /\ res' = NoResponse
                 ELSE /\ gen'.pc = "idle"
                      /\ GenerateAnswers(200)
                      /\ Len(res'.body) = Len(gen.items)
                      /\ \A k \in 1..Len(gen.items) : res'.body[k].itemId = gen.items[k].id
       /\ (gen.pc # "idle" /\ gen'.pc # "idle") =>
              /\ gen'.items = gen.items
              /\ gen'.i = gen.i + (IF predictions' # predictions THEN 1 ELSE 0)
       /\ (GenerateAnswers(200) /\ gen.pc # "idle") => predictions' # predictions
       /\ (GenerateAnswers(200) /\ gen.pc = "idle") =>
              inventory_items = <<>> /\ res'.body = <<>> /\ predictions' = predictions
       /\ GenerateAnswers(500) =>
              /\ predictions' = predictions
              /\ gen'.pc = "idle"
       /\ (gen.pc # "idle" /\ gen'.pc = "idle") =>
              GenerateAnswers(200) \/ GenerateAnswers(500)
      ]_vars

\* a run over two items has answered 500 after the row of its first item was inserted
C26_Witness ==
    /\ res = generateError
    /\ Len(inventory_items) = 2
    /\ Len(predictions) = 1

----------------------------------------------------------------------------
(* Claims about the statistics and the listing (SpecStats) *)

\* C27 (as stated): the handler of GET /stats/overview never sends twice, and has sent
\* once when all four callbacks have run
C27_Original ==
    /\ Len(overview.sent) <= 1
    /\ (overview.started /\ overview.pending = {}) => Len(overview.sent) = 1

\* the last step answered GET /api/inventory
Listed == res.route = "GET /inventory"

\* the statistics request has answered 200
Counted == overview.sent # <<>> /\ overview.sent[1].status = 200

\* the stored items with the given listing status
withStatus(level) ==
    {k \in 1..Len(inventory_items) :
        listStatus(inventory_items[k].current_stock, inventory_items[k].reorder_point) = level}

\* C30: every stored item is listed once, as critical exactly when its stock is at
\* most 0 and as low exactly when its stock is positive and at most the reorder point,
\* which is its alert level except that warning is listed as safe; the statistics
\* count as critical and lowStock the items listed as critical and as low, no item in
\* both, together the items with stock at most the reorder point or at most 0
C30_Views ==
    /\ Listed =>
          /\ Len(res.body.items) = Len(inventory_items)
          /\ \A k \in 1..Len(inventory_items) :
                \E a \in 1..Len(res.body.items) : res.body.items[a].id = inventory_items[k].id
          /\ \A a \in 1..Len(res.body.items) :
                LET row == res.body.items[a]
                    level == row.status.level
                IN  /\ level \in {"critical", "low", "safe"}
                    /\ level = "critical" <=> row.currentStock <= 0
                    /\ level = "low" <=>
                          (0 < row.currentStock /\ row.currentStock <= row.reorderPoint)
                    /\ \A date \in latestDates(row.id) :
                          LET alert == alert_level(row.currentStock, row.reorderPoint, date)
                          IN  level = IF alert = "warning" THEN "safe" ELSE alert
    /\ Counted =>
          LET stats == overview.sent[1].body
              critical == {k \in 1..Len(inventory_items) :
                              inventory_items[k].current_stock <= 0}
              low == {k \in 1..Len(inventory_items) :
                         /\ 0 < inventory_items[k].current_stock
                         /\ inventory_items[k].current_stock
                               <= inventory_items[k].reorder_point}
          IN  /\ stats["critical"] = <<Cardinality(withStatus("critical"))>>
              /\ stats["lowStock"] = <<Cardinality(withStatus("low"))>>
              /\ withStatus("critical") = critical
              /\ withStatus("low") = low
              /\ critical \cap low = {}
              /\ stats["critical"][1] + stats["lowStock"][1]
                    = Cardinality({k \in 1..Len(inventory_items) :
                                      \/ inventory_items[k].current_stock
                                            <= inventory_items[k].reorder_point
                                      \/ inventory_items[k].current_stock <= 0})
              /\ Listed =>
                    \A level \in {"critical", "low"} :
                        Cardinality({a \in 1..Len(res.body.items) :
                                        res.body.items[a].status.level = level})
                            = stats[IF level = "low" THEN "lowStock" ELSE level][1]

\* the statistics have counted an out-of-stock item and the listing shows as safe an
\* item whose alert level is warning
C30_Witness ==
    /\ Counted
    /\ overview.sent[1].body["critical"] = <<1>>
    /\ Listed
    /\ \E a \in 1..Len(res.body.items) :
          LET row == res.body.items[a]
          IN  /\ row.status.level = "safe"
              /\ alert_level(row.currentStock, row.reorderPoint, row.predictedRunOut)
                     = "warning"

----------------------------------------------------------------------------
(* Claims about the tables (Spec, SpecUpload) *)

\* the ids of the stored items
storedIds == {inventory_items[i].id : i \in 1..Len(inventory_items)}

\* C28 (as stated): every row of sales_data and of predictions references a stored item
C28_Original ==
    /\ \A k \in 1..Len(sales_data) : sales_data[k].item_id \in storedIds
    /\ \A k \in 1..Len(predictions) : predictions[k].item_id \in storedIds

\* C29 (as stated): no two stored items have the same name and category
C29_Original ==
    \A j, k \in 1..Len(inventory_items) :
        (/\ inventory_items[j].name = inventory_items[k].name
         /\ inventory_items[j].category = inventory_items[k].category) => j = k

====
